---- MODULE Spec2Model ----
(***************************************************************************)
(* Model of the storage/query core of mozsearch's tools crate:             *)
(*   - file_format/identifiers.rs : IdentMap (memory-mapped sorted         *)
(*     identifier index: uppercase, get_line, bisect, lookup)              *)
(*   - abstract_server/local_index.rs : LocalIndex (search_identifiers,    *)
(*     fetch_raw_analysis over gzip-compressed NDJSON)                     *)
(* Byte strings are sequences of ASCII codes.  Rust's 0-based byte offsets *)
(* are kept; bytes[pos] of the source is At(bytes, pos) here.              *)
(***************************************************************************)
EXTENDS Integers, Sequences, FiniteSets

VARIABLES
    file,    \* the identifiers file on disk (read-only for the server)
    mmap,    \* IdentMap.mmap: Option<Mmap>
    call,    \* the operation in progress and its arguments
    ret,     \* what the operation returned: its kind and a sequence of records
             \* (IdentResult, pair, JSON value, or bisect's one offset)
    hits,    \* lookup: line numbers (1-based, in the file) of the returned records
    range,   \* lookup: <<start, end>> as computed by the two bisect calls
    trace    \* bisect: <<first, count>> at every test of the loop condition

vars == <<file, mmap, call, ret, hits, range, trace>>

(* ---------------------------- byte constants --------------------------- *)
Newline == 10
Space == 32
Dot == 46
Colon == 58
UpperA == 65
LowerA == 97
LowerZ == 122
Tilde == 126

(* ------------------------------- bounds -------------------------------- *)
\* largest number of records in an index file
MaxLines == 3
\* largest max_results argument tried
MaxResults == 2
\* largest number of bytes in a decompressed analysis artifact
MaxNdjsonLen == 4

(* --------------------------- generic helpers --------------------------- *)
At(bytes, pos) == bytes[pos + 1]

\* Rust's bytes[from..to]
Slice(bytes, from, to) == SubSeq(bytes, from + 1, to)

\* Ord for Vec<u8>: lexicographic, a proper prefix sorts first
VecLess(a, b) ==
    \E i \in 1..Len(b) :
        /\ Len(a) >= i - 1
        /\ \A j \in 1..(i - 1) : a[j] = b[j]
        /\ (Len(a) = i - 1 \/ a[i] < b[i])

starts_with(s, prefix) ==
    /\ Len(prefix) <= Len(s)
    /\ \A j \in 1..Len(prefix) : s[j] = prefix[j]

contains(s, ch) == \E j \in 1..Len(s) : s[j] = ch

RECURSIVE Concat(_)
Concat(seqs) ==
    IF seqs = <<>> THEN <<>> ELSE Head(seqs) \o Concat(Tail(seqs))

\* split(sep): the fields between separators (always at least one field)
RECURSIVE SplitAcc(_, _, _, _)
SplitAcc(s, sep, cur, acc) ==
    IF s = <<>> THEN Append(acc, cur)
    ELSE IF Head(s) = sep THEN SplitAcc(Tail(s), sep, <<>>, Append(acc, cur))
    ELSE SplitAcc(Tail(s), sep, Append(cur, Head(s)), acc)

split(s, sep) == SplitAcc(s, sep, <<>>, <<>>)

\* BufRead::lines / str::lines: split on '\n'; a final empty piece is no line
lines(s) ==
    LET pieces == split(s, Newline)
    IN  IF pieces[Len(pieces)] = <<>>
        THEN SubSeq(pieces, 1, Len(pieces) - 1)
        ELSE pieces

(* ------------------------------ uppercase ------------------------------ *)
uppercase(s) ==
    [i \in 1..Len(s) |->
        IF s[i] >= LowerA /\ s[i] <= LowerZ
        THEN s[i] - LowerA + UpperA
        ELSE s[i]]

(* ------------------------------ IdentMap ------------------------------- *)
None == [some |-> FALSE, bytes |-> <<>>]
Some(bytes) == [some |-> TRUE, bytes |-> bytes]

Ok(v) == [kind |-> "ok", value |-> v]
Panic == [kind |-> "panic", value |-> <<>>]

\* IdentMap::new: a file that cannot be mapped gives the absent state
IdentMap_new(f) ==
    IF f.mappable THEN Some(f.bytes) ELSE None

RECURSIVE LineStart(_, _)
LineStart(bytes, start) ==
    IF start > 0 /\ At(bytes, start - 1) # Newline
    THEN LineStart(bytes, start - 1)
    ELSE start

RECURSIVE LineEnd(_, _)
LineEnd(bytes, end) ==
    IF end < Len(bytes) /\ At(bytes, end) # Newline
    THEN LineEnd(bytes, end + 1)
    ELSE end

\* get_line: the line holding byte pos (a '\n' belongs to the line before it);
\* an out-of-range index or usize underflow aborts
get_line(m, pos) ==
    IF ~m.some THEN Ok(<<>>)
    ELSE IF pos >= Len(m.bytes) THEN Panic
    ELSE IF At(m.bytes, pos) = Newline /\ pos = 0 THEN Panic
    ELSE LET p == IF At(m.bytes, pos) = Newline THEN pos - 1 ELSE pos
         IN  Ok(Slice(m.bytes, LineStart(m.bytes, p), LineEnd(m.bytes, p)))

\* bisect_needle with the flag inverted: the sentinel goes to the lower bound
bisect_needle_inverted(needle, upper_bound) ==
    IF ~upper_bound THEN Append(uppercase(needle), Tilde) ELSE uppercase(needle)

\* the needle bisect compares with: uppercased, plus '~' for the upper bound
bisect_needle(needle, upper_bound) ==
    IF upper_bound THEN Append(uppercase(needle), Tilde) ELSE uppercase(needle)

\* bisect_step resuming at the probed byte instead of the byte after it
bisect_step_at_probe(goes_right, first, count, step, pos) ==
    IF goes_right
    THEN [first |-> pos, count |-> count - (step + 1)]
    ELSE [first |-> first, count |-> step]

\* the if/else of the loop body: where the search goes after probing pos
bisect_step(goes_right, first, count, step, pos) ==
    IF goes_right
    THEN [first |-> pos + 1, count |-> count - (step + 1)]
    ELSE [first |-> first, count |-> step]

\* the loop of bisect; steps records <<first, count>> at each loop test
RECURSIVE bisect_loop(_, _, _, _, _, _)
bisect_loop(m, needle, upper_bound, first, count, steps) ==
    LET seen == Append(steps, <<first, count>>)
    IN  IF count > 0
        THEN LET step == count \div 2
                 pos == first + step
                 line == get_line(m, pos)
             IN  IF line.kind = "panic"
                 THEN [kind |-> "panic", value |-> first, steps |-> seen]
                 ELSE LET line_upper == uppercase(line.value)
                          n == bisect_step(VecLess(line_upper, needle)
                                             \/ (upper_bound
                                                 /\ line_upper = needle),
                                           first, count, step, pos)
                      IN  bisect_loop(m, needle, upper_bound, n.first,
                                      n.count, seen)
        ELSE [kind |-> "ok", value |-> first, steps |-> seen]

bisect_run(m, needle, upper_bound) ==
    IF ~m.some THEN [kind |-> "ok", value |-> 0, steps |-> <<>>]
    ELSE bisect_loop(m, bisect_needle(needle, upper_bound), upper_bound,
                     0, Len(m.bytes), <<>>)

bisect(m, needle, upper_bound) ==
    LET r == bisect_run(m, needle, upper_bound)
    IN  [kind |-> r.kind, value |-> r.value]

(* --------------------------- demangle_name ----------------------------- *)
\* symbols of the modelled index: 's' is a plain name, 'm' a mangled one
PlainSymbol == <<115>>
MangledSymbol == <<109>>
DemangledName == <<100>>

\* the external c++filt run: it prints the demangled (or unchanged) name and
\* a newline
CppFilt(name) ==
    [ok |-> TRUE, success |-> TRUE,
     stdout |-> (IF name = MangledSymbol THEN DemangledName ELSE name)
                    \o <<Newline>>]

IsWhitespace(b) == b \in {9, 10, 11, 12, 13, Space}

RECURSIVE TrimStart(_)
TrimStart(s) ==
    IF s # <<>> /\ IsWhitespace(Head(s)) THEN TrimStart(Tail(s)) ELSE s

RECURSIVE TrimEnd(_)
TrimEnd(s) ==
    IF s # <<>> /\ IsWhitespace(s[Len(s)])
    THEN TrimEnd(SubSeq(s, 1, Len(s) - 1))
    ELSE s

trim(s) == TrimEnd(TrimStart(s))

demangle_name(name) ==
    LET output == CppFilt(name)
    IN  IF ~output.ok THEN name
        ELSE IF ~output.success THEN name
        ELSE trim(output.stdout)

(* ------------------------------- lookup -------------------------------- *)
\* suffix_rejects without the test for '.'
suffix_rejects_colon_only(id, needle, exact_match) ==
    LET suffix == SubSeq(id, Len(needle) + 1, Len(id))
    IN  \/ contains(suffix, Colon)
        \/ (exact_match /\ Len(suffix) > 0)

\* the suffix rule: skip ids that go on with a ':' or '.', and any longer id
\* when an exact match is asked for (needs Len(needle) <= Len(id))
suffix_rejects(id, needle, exact_match) ==
    LET suffix == SubSeq(id, Len(needle) + 1, Len(id))
    IN  \/ contains(suffix, Colon)
        \/ contains(suffix, Dot)
        \/ (exact_match /\ Len(suffix) > 0)

\* case_rejects comparing the uppercased forms
case_rejects_folded(id, needle, ignore_case) ==
    ~ignore_case /\ ~starts_with(uppercase(id), uppercase(needle))

\* the case rule: a case-sensitive search wants the needle byte for byte
case_rejects(id, needle, ignore_case) ==
    ~ignore_case /\ ~starts_with(id, needle)

\* the id of the result: the demangled symbol when demangling changed it
display_id(id, symbol) ==
    LET demangled == demangle_name(symbol)
    IN  IF demangled # symbol THEN demangled ELSE id

\* the break after a push
cap_reached(result, max_results) == Len(result) = max_results

\* the for loop of lookup over the lines of the slice; acc.result is the
\* result vector, acc.hits the (1-based) positions in the slice of the lines
\* that were pushed
RECURSIVE lookup_loop(_, _, _, _, _, _, _)
lookup_loop(ls, i, needle, exact_match, ignore_case, max_results, acc) ==
    IF i > Len(ls) THEN [kind |-> "ok", value |-> acc.result, hits |-> acc.hits]
    ELSE
    LET pieces == split(ls[i], Space)
    IN  IF Len(pieces) < 2 \/ Len(needle) > Len(pieces[1])
        THEN [kind |-> "panic", value |-> <<>>, hits |-> <<>>]
        ELSE
        LET id == pieces[1]
            symbol == pieces[2]
        IN  IF suffix_rejects(id, needle, exact_match)
            THEN lookup_loop(ls, i + 1, needle, exact_match, ignore_case,
                             max_results, acc)
            ELSE IF case_rejects(id, needle, ignore_case)
            THEN lookup_loop(ls, i + 1, needle, exact_match, ignore_case,
                             max_results, acc)
            ELSE
            LET shown == display_id(id, symbol)
                next == [result |-> Append(acc.result,
                                           [id |-> shown, symbol |-> symbol]),
                         hits |-> Append(acc.hits, i)]
            IN  IF cap_reached(next.result, max_results)
                THEN [kind |-> "ok", value |-> next.result, hits |-> next.hits]
                ELSE lookup_loop(ls, i + 1, needle, exact_match, ignore_case,
                                 max_results, next)

\* number of complete lines in bytes[0..pos]
LinesBefore(bytes, pos) ==
    Cardinality({p \in 0..(pos - 1) : At(bytes, p) = Newline})

\* lookup past the match on self.mmap: the file is mapped
lookup_mapped(m, needle, exact_match, ignore_case, max_results) ==
    LET start == bisect(m, needle, FALSE)
        end == bisect(m, needle, TRUE)
    IN  IF start.kind = "panic" \/ end.kind = "panic"
           \/ start.value > end.value \/ end.value > Len(m.bytes)
        THEN [kind |-> "panic", value |-> <<>>, hits |-> <<>>,
              range |-> <<start.value, end.value>>]
        ELSE
        LET slice == Slice(m.bytes, start.value, end.value)
            r == lookup_loop(lines(slice), 1, needle, exact_match, ignore_case,
                             max_results, [result |-> <<>>, hits |-> <<>>])
            base == LinesBefore(m.bytes, start.value)
        IN  [kind |-> r.kind, value |-> r.value,
             hits |-> [j \in 1..Len(r.hits) |-> base + r.hits[j]],
             range |-> <<start.value, end.value>>]

\* lookup_run unwrapping the mapping instead of matching on it
lookup_run_unwrap(m, needle, exact_match, ignore_case, max_results) ==
    IF ~m.some
    THEN [kind |-> "panic", value |-> <<>>, hits |-> <<>>, range |-> <<>>]
    ELSE lookup_mapped(m, needle, exact_match, ignore_case, max_results)

\* lookup, with the positions in the file (1-based line numbers) of the
\* returned records and the range the two bisect calls gave
lookup_run(m, needle, exact_match, ignore_case, max_results) ==
    IF ~m.some
    THEN [kind |-> "ok", value |-> <<>>, hits |-> <<>>, range |-> <<>>]
    ELSE lookup_mapped(m, needle, exact_match, ignore_case, max_results)

lookup(m, needle, exact_match, ignore_case, max_results) ==
    LET r == lookup_run(m, needle, exact_match, ignore_case, max_results)
    IN  [kind |-> r.kind, value |-> r.value]

(* ------------------------------ LocalIndex ----------------------------- *)
\* a (String, String) tuple
Pair(a, b) == [fst |-> a, snd |-> b]

\* search_identifiers handing the two flags to lookup in the wrong order
search_identifiers_flags_swapped(m, needle, exact_match, ignore_case, match_limit) ==
    LET found == lookup(m, needle, ignore_case, exact_match, match_limit)
    IN  IF found.kind = "panic" THEN found
        ELSE Ok([j \in 1..Len(found.value) |->
                    Pair(found.value[j].symbol, found.value[j].id)])

search_identifiers(m, needle, exact_match, ignore_case, match_limit) ==
    LET found == lookup(m, needle, exact_match, ignore_case, match_limit)
    IN  IF found.kind = "panic" THEN found
        ELSE Ok([j \in 1..Len(found.value) |->
                    Pair(found.value[j].symbol, found.value[j].id)])

\* From<std::io::Error> for ServerError
from_io_error ==
    [kind |-> "StickyProblem", value |-> <<>>, layer |-> "ServerLayer"]

\* From<serde_json::Error> for ServerError
from_json_error ==
    [kind |-> "StickyProblem", value |-> <<>>, layer |-> "DataLayer"]

IsDigit(b) == b \in 48..57

RECURSIVE DigitsValue(_)
DigitsValue(s) ==
    IF s = <<>> THEN 0
    ELSE 10 * DigitsValue(SubSeq(s, 1, Len(s) - 1)) + (s[Len(s)] - 48)

\* a serde_json Value::Number
Number(n) == [number |-> n]

\* serde_json::from_str on one line, for the lines of the modelled
\* artifacts: a JSON number parses to its value, anything else is an error
from_str(s) ==
    IF /\ s # <<>>
       /\ \A j \in 1..Len(s) : IsDigit(s[j])
       /\ (Len(s) > 1 => s[1] # 48)
    THEN [ok |-> TRUE, value |-> Number(DigitsValue(s))]
    ELSE [ok |-> FALSE, value |-> Number(0)]

\* collect that drops the lines that do not parse (a filter_map)
RECURSIVE collect_skipping(_, _)
collect_skipping(ls, acc) ==
    IF ls = <<>> THEN Ok(acc)
    ELSE LET v == from_str(Head(ls))
         IN  IF v.ok THEN collect_skipping(Tail(ls), Append(acc, v.value))
             ELSE collect_skipping(Tail(ls), acc)

\* .map(from_str).collect::<Result<Vec<_>>>(): the first error ends it
RECURSIVE collect(_, _)
collect(ls, acc) ==
    IF ls = <<>> THEN Ok(acc)
    ELSE LET v == from_str(Head(ls))
         IN  IF v.ok THEN collect(Tail(ls), Append(acc, v.value))
             ELSE from_json_error

read_gzipped_ndjson_from_file(artifact) ==
    IF ~artifact.exists THEN from_io_error
    ELSE IF ~artifact.gzip_ok THEN from_io_error
    ELSE collect(lines(artifact.text), <<>>)

fetch_raw_analysis(artifact) ==
    LET values == read_gzipped_ndjson_from_file(artifact)
    IN  IF values.kind # "ok" THEN values ELSE Ok(values.value)

(* ------------------------------ input sets ----------------------------- *)
SeqsUpTo(S, lo, hi) == UNION {[1..n -> S] : n \in lo..hi}

LowerB == LowerA + 1

\* identifiers of the modelled index files
Ids ==
    { <<UpperA>>, <<LowerA>>, <<LowerA, LowerB>>, <<LowerA, Dot>>,
      <<LowerA, Colon>>, <<LowerA, Tilde>>, <<LowerB>> }

Needles ==
    { <<>>, <<LowerA>>, <<UpperA>>, <<LowerA, LowerB>>, <<LowerB>> }

\* the records of the modelled index files: every id, under a plain or a
\* mangled symbol
Records ==
    {[id |-> i, symbol |-> PlainSymbol] : i \in Ids \ {<<UpperA>>}}
    \cup {[id |-> i, symbol |-> MangledSymbol] :
            i \in {<<UpperA>>, <<LowerA, LowerB>>}}

RecordLine(r) == r.id \o <<Space>> \o r.symbol \o <<Newline>>

FileBytes(rs) == Concat([j \in 1..Len(rs) |-> RecordLine(rs[j])])

\* the same file without the newline of its last record
Unterminated(bytes) == SubSeq(bytes, 1, Len(bytes) - 1)

\* sorted by the uppercase form of the id (ties in any order)
SortedById(rs) ==
    \A j \in 1..(Len(rs) - 1) :
        ~VecLess(uppercase(rs[j + 1].id), uppercase(rs[j].id))

Unmappable == [mappable |-> FALSE, bytes |-> <<>>]

\* records in any order, with or without a final newline
AnyIndexFiles ==
    LET all == {FileBytes(rs) : rs \in SeqsUpTo(Records, 1, MaxLines)}
    IN  {[mappable |-> TRUE, bytes |-> b] :
            b \in all \cup {Unterminated(x) : x \in all}}

WellFormedIndexFiles ==
    {[mappable |-> TRUE, bytes |-> FileBytes(rs)] :
        rs \in {q \in SeqsUpTo(Records, 1, MaxLines) : SortedById(q)}}

NdjsonChars == {49, 50, 120, Newline}

Artifacts ==
    { [exists |-> FALSE, gzip_ok |-> FALSE, text |-> <<>>],
      [exists |-> TRUE, gzip_ok |-> FALSE, text |-> <<>>] }
    \cup {[exists |-> TRUE, gzip_ok |-> TRUE, text |-> t] :
            t \in SeqsUpTo(NdjsonChars, 0, MaxNdjsonLen)}

(* ------------------------------- actions ------------------------------- *)
\* no call in progress: the server waits for its caller's next request
Idle == [op |-> "idle"]

Fresh ==
    /\ mmap = IdentMap_new(file)
    /\ call = Idle
    /\ ret = Ok(<<>>)
    /\ hits = <<>>
    /\ range = <<>>
    /\ trace = <<>>

Init ==
    /\ file \in WellFormedIndexFiles \cup {Unmappable}
    /\ Fresh

InitAny ==
    /\ file \in AnyIndexFiles \cup {Unmappable}
    /\ Fresh

DoBisect ==
    /\ call = Idle
    /\ \E needle \in Needles, upper_bound \in BOOLEAN :
        LET r == bisect_run(mmap, needle, upper_bound)
        IN  /\ call' = [op |-> "bisect", needle |-> needle,
                        upper_bound |-> upper_bound]
            /\ ret' = [kind |-> r.kind, value |-> <<[offset |-> r.value]>>]
            /\ trace' = r.steps
            /\ hits' = <<>>
            /\ range' = <<>>
            /\ UNCHANGED <<file, mmap>>

DoLookup ==
    /\ call = Idle
    /\ \E needle \in Needles, exact_match \in BOOLEAN, ignore_case \in BOOLEAN,
       max_results \in 0..MaxResults :
        LET r == lookup_run(mmap, needle, exact_match, ignore_case, max_results)
        IN  /\ call' = [op |-> "lookup", needle |-> needle,
                        exact_match |-> exact_match,
                        ignore_case |-> ignore_case,
                        max_results |-> max_results]
            /\ ret' = [kind |-> r.kind, value |-> r.value]
            /\ hits' = r.hits
            /\ range' = r.range
            /\ trace' = <<>>
            /\ UNCHANGED <<file, mmap>>

DoSearchIdentifiers ==
    /\ call = Idle
    /\ \E needle \in Needles, exact_match \in BOOLEAN, ignore_case \in BOOLEAN,
       match_limit \in 0..MaxResults :
        /\ call' = [op |-> "search_identifiers", needle |-> needle,
                    exact_match |-> exact_match, ignore_case |-> ignore_case,
                    max_results |-> match_limit]
        /\ ret' = search_identifiers(mmap, needle, exact_match, ignore_case,
                                     match_limit)
        /\ hits' = <<>>
        /\ range' = <<>>
        /\ trace' = <<>>
        /\ UNCHANGED <<file, mmap>>

DoFetchRawAnalysis ==
    /\ call = Idle
    /\ \E artifact \in Artifacts :
        /\ call' = [op |-> "fetch_raw_analysis", artifact |-> artifact]
        /\ ret' = fetch_raw_analysis(artifact)
        /\ hits' = <<>>
        /\ range' = <<>>
        /\ trace' = <<>>
        /\ UNCHANGED <<file, mmap>>

\* the caller has taken (and dropped) the result of the finished call
Return ==
    /\ call # Idle
    /\ call' = Idle
    /\ ret' = Ok(<<>>)
    /\ hits' = <<>>
    /\ range' = <<>>
    /\ trace' = <<>>
    /\ UNCHANGED <<file, mmap>>

Next ==
    \/ Return
    \/ DoBisect
    \/ DoLookup
    \/ DoSearchIdentifiers
    \/ DoFetchRawAnalysis

\* the whole server over a sorted (or missing) identifiers file
Spec == Init /\ [][Next]_vars

(* No operation writes file or mmap, and each one starts from Idle and is     *)
(* followed by Return, so the states Spec reaches are those reached by the   *)
(* identifier operations alone together with those reached by                *)
(* fetch_raw_analysis alone.  The specifications below take these apart.     *)

NextIndex ==
    \/ Return
    \/ DoBisect
    \/ DoLookup
    \/ DoSearchIdentifiers

\* the identifier operations over a sorted (or missing) identifiers file
SpecIndex == Init /\ [][NextIndex]_vars

NextIdentMap ==
    \/ Return
    \/ DoBisect
    \/ DoLookup

\* IdentMap's own methods over index files whose records are in any order
SpecAny == InitAny /\ [][NextIdentMap]_vars

NextBisect ==
    \/ Return
    \/ DoBisect

\* bisect alone over index files whose records are in any order
SpecBisect == InitAny /\ [][NextBisect]_vars

InitFetch ==
    /\ file = Unmappable
    /\ Fresh

NextFetch ==
    \/ Return
    \/ DoFetchRawAnalysis

\* fetch_raw_analysis alone; it reads config_paths and never the identifiers
SpecFetch == InitFetch /\ [][NextFetch]_vars

(* ------------------- vocabulary of the properties ---------------------- *)
\* the records of the mapped file, read independently of bisect and lookup
IndexLines == lines(mmap.bytes)

NumLines == Len(IndexLines)

IdAt(i) == split(IndexLines[i], Space)[1]

\* byte offset at which record i starts
OffsetOf(i) == Len(Concat([j \in 1..(i - 1) |-> IndexLines[j] \o <<Newline>>]))

InRange(i) == range[1] <= OffsetOf(i) /\ OffsetOf(i) < range[2]

FoldedPrefix(i, needle) == starts_with(uppercase(IdAt(i)), uppercase(needle))

SuffixAt(i, needle) == SubSeq(IdAt(i), Len(needle) + 1, Len(IdAt(i)))

Scoped(s) == \E j \in 1..Len(s) : s[j] \in {Colon, Dot}

IsHit(i) == \E j \in 1..Len(hits) : hits[j] = i

\* the scan stopped at the cap before it came to record i
CapCutsBefore(i) ==
    /\ Len(hits) = call.max_results
    /\ \A j \in 1..Len(hits) : hits[j] < i

\* record i passes the suffix rule and the case rule of the call
Matches(i) ==
    /\ Len(IdAt(i)) >= Len(call.needle)
    /\ ~Scoped(SuffixAt(i, call.needle))
    /\ (call.exact_match => SuffixAt(i, call.needle) = <<>>)
    /\ (~call.ignore_case => starts_with(IdAt(i), call.needle))

Matching == {i \in 1..NumLines : InRange(i) /\ Matches(i)}

Min(a, b) == IF a <= b THEN a ELSE b

LookupDone == call.op = "lookup" /\ mmap.some /\ ret.kind = "ok"

FileIsSorted ==
    \A j \in 1..(NumLines - 1) :
        ~VecLess(uppercase(IdAt(j + 1)), uppercase(IdAt(j)))

IsLineBoundary(off) ==
    \/ off = 0
    \/ off = Len(mmap.bytes)
    \/ (off > 0 /\ off < Len(mmap.bytes) /\ At(mmap.bytes, off - 1) = Newline)

(* ------------------------------- claims -------------------------------- *)

\* C1: lookup returns at most max_results results, for every max_results
\* including 0, and they are exactly the first max_results matching records
\* of the bisected range (all of them if fewer match), in file order.
C1_ResultCap ==
    LookupDone =>
        /\ Len(ret.value) <= call.max_results
        /\ Len(hits) = Min(call.max_results, Cardinality(Matching))
        /\ \A j \in 1..Len(hits) :
            /\ hits[j] \in Matching
            /\ Cardinality({m \in Matching : m < hits[j]}) = j - 1

\* C2 (as claimed): search_identifiers returns the pairs of lookup, each as
\* (display id, raw symbol).
C2_PairsIdFirst ==
    (call.op = "search_identifiers" /\ ret.kind = "ok") =>
        LET found == lookup(mmap, call.needle, call.exact_match,
                            call.ignore_case, call.max_results).value
        IN  /\ Len(ret.value) = Len(found)
            /\ \A j \in 1..Len(found) :
                ret.value[j] = Pair(found[j].id, found[j].symbol)

\* C2 (amended): search_identifiers returns one pair per lookup result, in
\* the same order, each as (raw symbol, display id): the symbol comes first.
C2_PairsSymbolFirst ==
    (call.op = "search_identifiers" /\ ret.kind = "ok") =>
        LET found == lookup(mmap, call.needle, call.exact_match,
                            call.ignore_case, call.max_results).value
        IN  /\ Len(ret.value) = Len(found)
            /\ \A j \in 1..Len(found) :
                ret.value[j] = Pair(found[j].symbol, found[j].id)

C2_Witness ==
    /\ call.op = "search_identifiers"
    /\ ret.kind = "ok"
    /\ call.max_results >= 2
    /\ Len(ret.value) >= 2
    /\ \E j \in 1..Len(ret.value) :
        ret.value[j] = Pair(MangledSymbol, DemangledName)
    /\ \E j \in 1..Len(ret.value) : ret.value[j].fst = PlainSymbol

\* C3: for a sorted index file and any needle, the byte range between the two
\* bisect results holds exactly the records whose uppercased id starts with
\* the uppercased needle.
C3_RangeExact ==
    (call.op = "lookup" /\ mmap.some) =>
        \A i \in 1..NumLines : InRange(i) <=> FoldedPrefix(i, call.needle)

\* C4: a returned record never has a ':' or '.' after the needle's length,
\* and under exact_match never has anything there; a record of the range that
\* goes on without ':' or '.' is returned when exact_match is off, unless the
\* case rule drops it or the cap ended the scan before it.
C4_SuffixRejection ==
    LookupDone =>
        /\ \A j \in 1..Len(hits) :
            /\ ~Scoped(SuffixAt(hits[j], call.needle))
            /\ (call.exact_match => SuffixAt(hits[j], call.needle) = <<>>)
        /\ \A i \in 1..NumLines :
            ( /\ InRange(i)
              /\ Len(IdAt(i)) > Len(call.needle)
              /\ ~Scoped(SuffixAt(i, call.needle))
              /\ ~call.exact_match
              /\ (call.ignore_case \/ starts_with(IdAt(i), call.needle)) )
            => (IsHit(i) \/ CapCutsBefore(i))

C4_Witness ==
    /\ LookupDone
    /\ ~call.exact_match
    /\ call.max_results > 0
    /\ \E i \in 1..NumLines :
        IsHit(i) /\ Len(IdAt(i)) > Len(call.needle) /\ Len(call.needle) > 0
    /\ \E i \in 1..NumLines :
        InRange(i) /\ ~IsHit(i) /\ Scoped(SuffixAt(i, call.needle))

\* C5: a case-sensitive lookup returns only records whose id starts with the
\* needle byte for byte; a case-insensitive one returns every record of the
\* range that the suffix rule lets through, up to the cap.
C5_CaseSensitivity ==
    LookupDone =>
        /\ ~call.ignore_case =>
            \A j \in 1..Len(hits) : starts_with(IdAt(hits[j]), call.needle)
        /\ call.ignore_case =>
            \A i \in 1..NumLines :
                ( /\ InRange(i)
                  /\ ~Scoped(SuffixAt(i, call.needle))
                  /\ (call.exact_match => SuffixAt(i, call.needle) = <<>>) )
                => (IsHit(i) \/ CapCutsBefore(i))

C5_Witness ==
    /\ LookupDone
    /\ ~call.ignore_case
    /\ Len(call.needle) > 0
    /\ Len(hits) > 0
    /\ Len(hits) < call.max_results
    /\ \E i \in 1..NumLines :
        /\ InRange(i)
        /\ ~IsHit(i)
        /\ IdAt(i) # call.needle
        /\ uppercase(IdAt(i)) = uppercase(call.needle)

\* C6: an identifiers file that cannot be mapped gives an index in the absent
\* state, on which every lookup returns the empty sequence and bisect
\* returns 0, without an error.
C6_AbsenceTolerance ==
    ~file.mappable =>
        /\ mmap = None
        /\ call.op = "lookup" => ret = Ok(<<>>)
        /\ call.op = "bisect" => ret = Ok(<<[offset |-> 0]>>)

C6_Witness ==
    /\ ~file.mappable
    /\ call.op = "lookup"
    /\ call.max_results > 0
    /\ ret = Ok(<<>>)

\* C7: fetch_raw_analysis of an artifact that opens and decompresses returns
\* one record per line, the i-th being the parse of the i-th line, when every
\* line parses; when some line does not, it returns a sticky error and no
\* record at all.
C7_AllOrNothing ==
    (call.op = "fetch_raw_analysis" /\ call.artifact.exists
        /\ call.artifact.gzip_ok) =>
        LET ls == lines(call.artifact.text)
        IN  IF \A i \in 1..Len(ls) : from_str(ls[i]).ok
            THEN /\ ret.kind = "ok"
                 /\ Len(ret.value) = Len(ls)
                 /\ \A i \in 1..Len(ls) : ret.value[i] = from_str(ls[i]).value
            ELSE /\ ret.kind = "StickyProblem"
                 /\ ret.value = <<>>

C7_Witness ==
    /\ call.op = "fetch_raw_analysis"
    /\ call.artifact.gzip_ok
    /\ LET ls == lines(call.artifact.text)
       IN  /\ Len(ls) = 2
           /\ from_str(ls[1]).ok
           /\ ls[2] # <<>>
           /\ ~from_str(ls[2]).ok
    /\ ret.kind = "StickyProblem"
    /\ ret.value = <<>>

\* C8: for a sorted index file and any needle, the lower bisect result is at
\* most the upper one, and both lie in the buffer: bytes[start..end] is a
\* valid range.
C8_BoundOrdering ==
    (call.op = "lookup" /\ mmap.some) =>
        /\ range[1] <= range[2]
        /\ range[2] <= Len(mmap.bytes)

C8_Witness ==
    /\ call.op = "lookup"
    /\ mmap.some
    /\ 0 < range[1]
    /\ range[1] < range[2]
    /\ range[2] < Len(mmap.bytes)

\* C9: on an index file whose records are not sorted, lookup still returns a
\* result sequence: it never aborts.
C9_NoAbortUnsorted ==
    (call.op = "lookup" /\ mmap.some) => ret.kind = "ok"

\* C10: on any buffer of non-empty lines, bisect keeps first + count within
\* the buffer at every loop test, so every probe is a valid index, and it
\* returns a line boundary.
C10_LineGranular ==
    (call.op = "bisect" /\ mmap.some) =>
        /\ ret.kind = "ok"
        /\ \A k \in 1..Len(trace) :
            /\ trace[k][1] + trace[k][2] <= Len(mmap.bytes)
            /\ trace[k][2] > 0 =>
                trace[k][1] + (trace[k][2] \div 2) < Len(mmap.bytes)
        /\ IsLineBoundary(ret.value[1].offset)

C10_Witness ==
    /\ call.op = "bisect"
    /\ mmap.some
    /\ ~FileIsSorted
    /\ At(mmap.bytes, Len(mmap.bytes) - 1) # Newline
    /\ Len(trace) >= 4
    /\ 0 < ret.value[1].offset
    /\ ret.value[1].offset < Len(mmap.bytes)

====
